---- MODULE Spec2Model ----
(***************************************************************************)
(* Model of inspect_ai/_eval/task/git_version.py (static extraction of     *)
(* task versions from a source revision, the scan over the git history of  *)
(* a task file, the materialisation of a historical module) and of the     *)
(* lazy registry entry exercised by tests/util/test_registry.py.           *)
(***************************************************************************)
EXTENDS Integers, Sequences, FiniteSets, TLC

VARIABLES
    source,      \* extraction: the source text handed to extract_task_versions
    versions,    \* extraction: the returned mapping (valid once pc = "done")
    pc,          \* control position of the operation under way
    repo,        \* locator: the repository (git log outcome, file at each commit)
    req,         \* locator: the call's arguments and its entry point
    idx,         \* locator: position of the for loop over commits
    commit,      \* locator: find_commit_for_version's return value
    outcome,     \* locator: load_task_at_version's outcome
    registry,    \* registry: name -> entry
    lazy,        \* registry: the LazyRegistryObject of each lazy name
    load_count,  \* registry: number of loader invocations per lazy name
    returned,    \* registry: objects returned by load()/registry_lookup, in order
    ops          \* registry: number of operations performed

vars == <<source, versions, pc, repo, req, idx, commit, outcome,
          registry, lazy, load_count, returned, ops>>

(***************************************************************************)
(* Python values: a constant of the source text, or a requested version.   *)
(* A float is kept in tenths (FloatV(15) is 1.5).                          *)
(***************************************************************************)
IntV(n) == [t |-> "int", n |-> n, s |-> ""]
StrV(s) == [t |-> "str", n |-> 0, s |-> s]
BoolV(b) == [t |-> "bool", n |-> IF b THEN 1 ELSE 0, s |-> ""]
FloatV(tenths) == [t |-> "float", n |-> tenths, s |-> ""]
NoneV == [t |-> "NoneType", n |-> 0, s |-> ""]

\* isinstance(val, (int, str)): bool is a subclass of int.
IsIntOrStr(val) == val.t \in {"int", "bool", "str"}

\* isinstance(val, str)
IsStr(val) == val.t = "str"

\* Python's == on these values: numbers compare by value across int, bool
\* and float; strings compare with strings only; None equals only None.
Tenths(val) == IF val.t = "float" THEN val.n ELSE 10 * val.n
PyEq(a, b) ==
    IF a.t \in {"int", "bool", "float"} /\ b.t \in {"int", "bool", "float"}
    THEN Tenths(a) = Tenths(b)
    ELSE IF a.t = "str" /\ b.t = "str" THEN a.s = b.s
    ELSE a.t = "NoneType" /\ b.t = "NoneType"

(***************************************************************************)
(* dict: a function from its keys.                                         *)
(***************************************************************************)
EmptyDict == [k \in {} |-> NoneV]
DictSet(d, key, val) ==
    [k \in DOMAIN d \cup {key} |-> IF k = key THEN val ELSE d[k]]
\* dict.get(key): None when the key is absent
DictGet(d, key) == IF key \in DOMAIN d THEN d[key] ELSE NoneV

(***************************************************************************)
(* The abstract syntax tree ast.parse produces.  Expressions that are not  *)
(* walked into (keyword values, assignment targets and values, decorator   *)
(* callees) are leaves; every statement and call is a node with a body of  *)
(* child nodes in field order.                                             *)
(***************************************************************************)
NoExpr == [e |-> "None", id |-> "", value |-> NoneV]
Constant(val) == [e |-> "Constant", id |-> "", value |-> val]
Name(id) == [e |-> "Name", id |-> id, value |-> NoneV]
Attribute(id) == [e |-> "Attribute", id |-> id, value |-> NoneV]
BinOp == [e |-> "BinOp", id |-> "", value |-> NoneV]

keyword(arg, value) == [arg |-> arg, value |-> value]

DecoName(id) == [e |-> "Name", id |-> id, func |-> NoExpr, keywords |-> <<>>]
DecoAttribute(id) ==
    [e |-> "Attribute", id |-> id, func |-> NoExpr, keywords |-> <<>>]
DecoCall(func, keywords) ==
    [e |-> "Call", id |-> "", func |-> func, keywords |-> keywords]

Node(type, name, targets, value, decorator_list, func, keywords, body) ==
    [type |-> type, name |-> name, targets |-> targets, value |-> value,
     decorator_list |-> decorator_list, func |-> func, keywords |-> keywords,
     body |-> body]
Assign(targets, value) ==
    Node("Assign", "", targets, value, <<>>, NoExpr, <<>>, <<>>)
AnnAssign(target, value) ==
    Node("AnnAssign", "", <<target>>, value, <<>>, NoExpr, <<>>, <<>>)
FunctionDef(name, decorator_list, body) ==
    Node("FunctionDef", name, <<>>, NoExpr, decorator_list, NoExpr, <<>>, body)
AsyncFunctionDef(name, decorator_list, body) ==
    Node("AsyncFunctionDef", name, <<>>, NoExpr, decorator_list, NoExpr, <<>>,
         body)
ClassDef(name, body) ==
    Node("ClassDef", name, <<>>, NoExpr, <<>>, NoExpr, <<>>, body)
If(body) == Node("If", "", <<>>, NoExpr, <<>>, NoExpr, <<>>, body)
Return(body) == Node("Return", "", <<>>, NoExpr, <<>>, NoExpr, <<>>, body)
Call(func, keywords, body) ==
    Node("Call", "", <<>>, NoExpr, <<>>, func, keywords, body)
Module(body) == Node("Module", "", <<>>, NoExpr, <<>>, NoExpr, <<>>, body)

\* ast.iter_child_nodes(node)
iter_child_nodes(node) == node.body

\* a depth-first traversal, every node before its children
RECURSIVE WalkPreorder(_)
WalkPreorder(todo) ==
    IF todo = <<>> THEN <<>>
    ELSE <<Head(todo)>> \o WalkPreorder(iter_child_nodes(Head(todo)) \o Tail(todo))
\* ast.walk(node): breadth-first, a deque popped on the left and extended
\* with the children of each node popped.
RECURSIVE WalkTodo(_)
WalkTodo(todo) ==
    IF todo = <<>> THEN <<>>
    ELSE <<Head(todo)>> \o WalkTodo(Tail(todo) \o iter_child_nodes(Head(todo)))
walk(node) == WalkTodo(<<node>>)

(***************************************************************************)
(* A source text: what it is as a string (empty, unparseable, parseable),  *)
(* the tree ast.parse gives for it, and whether executing it raises.       *)
(***************************************************************************)
Text(tree, raises) == [text |-> "ok", tree |-> tree, raises |-> raises]
EmptyText == [text |-> "empty", tree |-> Module(<<>>), raises |-> FALSE]
BadText == [text |-> "bad", tree |-> Module(<<>>), raises |-> TRUE]

(***************************************************************************)
(* extract_task_versions                                                   *)
(***************************************************************************)
\* task_name: str | None
NoTaskName == [none |-> TRUE, s |-> ""]
TaskName(s) == [none |-> FALSE, s |-> s]

\* lines 41-47: for target in node.targets
RECURSIVE TargetsLoop(_, _, _)
TargetsLoop(targets, value, constants) ==
    IF targets = <<>> THEN constants
    ELSE LET target == Head(targets)
             upd == IF /\ target.e = "Name"
                       /\ value.e = "Constant"
                       /\ IsIntOrStr(value.value)
                    THEN DictSet(constants, target.id, value.value)
                    ELSE constants
         IN  TargetsLoop(Tail(targets), value, upd)

\* the pass taken over every node of the tree, nested statements included
RECURSIVE ConstantsPassNested(_, _)
ConstantsPassNested(nodes, constants) ==
    IF nodes = <<>> THEN constants
    ELSE LET node == Head(nodes)
         IN  ConstantsPassNested(iter_child_nodes(node) \o Tail(nodes),
                 IF node.type = "Assign"
                 THEN TargetsLoop(node.targets, node.value, constants)
                 ELSE constants)

\* lines 38-47: the pass over the module's children collecting constants
RECURSIVE ConstantsPass(_, _)
ConstantsPass(nodes, constants) ==
    IF nodes = <<>> THEN constants
    ELSE LET node == Head(nodes)
         IN  ConstantsPass(Tail(nodes),
                 IF node.type = "Assign"
                 THEN TargetsLoop(node.targets, node.value, constants)
                 ELSE constants)

\* lines 65-74: for keyword in decorator.keywords ... else
RECURSIVE NameKeywordLoop(_, _)
NameKeywordLoop(keywords, node_name) ==
    IF keywords = <<>> THEN TaskName(node_name)
    ELSE LET kw == Head(keywords)
         IN  IF kw.arg = "name" /\ kw.value.e = "Constant"
             THEN IF IsStr(kw.value.value)
                  THEN TaskName(kw.value.value.s)
                  ELSE NoTaskName
             ELSE NameKeywordLoop(Tail(keywords), node_name)

\* lines 57-75: for decorator in node.decorator_list
RECURSIVE DecoratorLoop(_, _)
DecoratorLoop(decorator_list, node_name) ==
    IF decorator_list = <<>> THEN NoTaskName
    ELSE LET decorator == Head(decorator_list)
         IN  IF decorator.e = "Name" /\ decorator.id = "task"
             THEN TaskName(node_name)
             ELSE IF /\ decorator.e = "Call"
                     /\ decorator.func.e = "Name"
                     /\ decorator.func.id = "task"
             THEN NameKeywordLoop(decorator.keywords, node_name)
             ELSE DecoratorLoop(Tail(decorator_list), node_name)

\* lines 84-96: for keyword in child.keywords
RECURSIVE VersionKeywordLoop(_, _, _, _)
VersionKeywordLoop(keywords, task_name, constants, vers) ==
    IF keywords = <<>> THEN vers
    ELSE LET kw == Head(keywords)
         IN  IF kw.arg = "version"
             THEN IF kw.value.e = "Constant"
                  THEN IF IsIntOrStr(kw.value.value)
                       THEN DictSet(vers, task_name, kw.value.value)
                       ELSE vers
                  ELSE IF kw.value.e = "Name" /\ kw.value.id \in DOMAIN constants
                  THEN DictSet(vers, task_name, constants[kw.value.id])
                  ELSE vers
             ELSE VersionKeywordLoop(Tail(keywords), task_name, constants, vers)

\* lines 81-96: for child in ast.walk(node)
RECURSIVE TaskCallLoop(_, _, _, _)
TaskCallLoop(children, task_name, constants, vers) ==
    IF children = <<>> THEN vers
    ELSE LET child == Head(children)
             upd == IF /\ child.type = "Call"
                       /\ child.func.e = "Name"
                       /\ child.func.id = "Task"
                    THEN VersionKeywordLoop(child.keywords, task_name,
                                            constants, vers)
                    ELSE vers
         IN  TaskCallLoop(Tail(children), task_name, constants, upd)

\* lines 52-96: for node in ast.iter_child_nodes(tree)
RECURSIVE FunctionsLoop(_, _, _)
FunctionsLoop(nodes, constants, vers) ==
    IF nodes = <<>> THEN vers
    ELSE LET node == Head(nodes)
             task_name == DecoratorLoop(node.decorator_list, node.name)
             upd == IF node.type # "FunctionDef" \/ task_name.none
                    THEN vers
                    ELSE TaskCallLoop(walk(node), task_name.s, constants, vers)
         IN  FunctionsLoop(Tail(nodes), constants, upd)

\* lines 26-98
extract_task_versions(src) ==
    IF src.text = "bad" THEN EmptyDict
    ELSE LET tree == src.tree
             constants == ConstantsPass(iter_child_nodes(tree), EmptyDict)
         IN  FunctionsLoop(iter_child_nodes(tree), constants, EmptyDict)

(***************************************************************************)
(* Source texts the extraction is applied to.  Each family is built from   *)
(* a small description: a list of positions in a table of forms.           *)
(***************************************************************************)
MaxKeywords == 2
MaxDecorators == 2
MaxStmts == 3
MaxDepth == 2
MaxCalls == 2
MaxFuncs == 2

SeqsUpTo(S, n) == UNION {[1..m -> S] : m \in 0..n}
Pick(table, picks) == [i \in DOMAIN picks |-> table[picks[i]]]
NoRepeatedArg(kws) ==
    \A i, j \in DOMAIN kws : kws[i].arg = kws[j].arg => i = j

TaskCall(keywords) == Call(Name("Task"), keywords, <<>>)
Version(expr) == <<keyword("dataset", BinOp), keyword("version", expr)>>
VersionKeywords ==
    <<Version(Constant(IntV(1))), Version(Constant(IntV(2))),
      Version(Constant(StrV("1"))), Version(Constant(BoolV(TRUE))),
      Version(Constant(FloatV(15))), Version(Constant(NoneV)),
      Version(Name("V")), Version(BinOp), <<keyword("dataset", BinOp)>>>>

\* @task(...) keywords; a keyword is never repeated in a call
DecoKeywords ==
    <<keyword("name", Constant(StrV("X"))), keyword("name", Constant(IntV(1))),
      keyword("name", Constant(NoneV)), keyword("name", Name("N")),
      keyword("name", BinOp), keyword("other", Constant(StrV("Y"))),
      keyword("display_name", Constant(StrV("D")))>>
Callees == <<Name("task"), Name("other"), Attribute("task")>>
ListedDecorators ==
    <<DecoName("task"), DecoName("other"), DecoAttribute("task"),
      DecoCall(Name("task"), <<>>),
      DecoCall(Name("task"), <<keyword("name", Constant(StrV("X")))>>),
      DecoCall(Name("other"), <<keyword("name", Constant(StrV("Z")))>>)>>

OneFunction(type, decorator_list, keywords) ==
    Module(<<[FunctionDef("f", decorator_list, <<Return(<<TaskCall(keywords)>>)>>)
                 EXCEPT !.type = type]>>)

\* one function under one called decorator, every list of keywords
CalledSource(callee, picks, versioned) ==
    OneFunction("FunctionDef",
                <<DecoCall(Callees[callee], Pick(DecoKeywords, picks))>>,
                VersionKeywords[IF versioned THEN 2 ELSE 9])
\* one function under a list of decorators
ListedSource(picks, versioned) ==
    OneFunction("FunctionDef", Pick(ListedDecorators, picks),
                VersionKeywords[IF versioned THEN 2 ELSE 9])
\* one `@task` function, def or async def, every form of version=
VersionedSource(type, v) ==
    OneFunction(type, <<DecoName("task")>>, VersionKeywords[v])

\* module-level statements around a task whose version is the name V
VersionFromV ==
    FunctionDef("f", <<DecoName("task")>>,
                <<Return(<<TaskCall(Version(Name("V")))>>)>>)
VersionFromLocalV ==
    FunctionDef("f", <<DecoName("task")>>,
                <<Assign(<<Name("V")>>, Constant(IntV(7))),
                  Return(<<TaskCall(Version(Name("V")))>>)>>)
ConstantStmts ==
    <<Assign(<<Name("V")>>, Constant(IntV(1))),
      Assign(<<Name("V")>>, Constant(StrV("1"))),
      Assign(<<Name("V")>>, Constant(FloatV(15))),
      Assign(<<Name("V")>>, BinOp),
      Assign(<<Attribute("V")>>, Constant(IntV(3))),
      AnnAssign(Name("V"), Constant(IntV(3))),
      Assign(<<Name("W"), Name("V")>>, Constant(IntV(4))),
      If(<<Assign(<<Name("V")>>, Constant(IntV(6)))>>),
      VersionFromV, VersionFromLocalV>>
ConstantSource(picks) == Module(Pick(ConstantStmts, picks))

\* a statement or an expression under d levels of one kind of nesting
RECURSIVE Nest(_, _, _, _)
Nest(kind, name, d, inner) ==
    IF d = 0 THEN inner
    ELSE LET under == <<Nest(kind, name, d - 1, inner)>>
         IN  CASE kind = "If" -> If(under)
               [] kind = "ClassDef" -> ClassDef(name, under)
               [] kind = "FunctionDef" -> FunctionDef(name, <<>>, under)
               [] kind = "task" -> FunctionDef(name, <<DecoName("task")>>, under)
               [] kind = "Call" -> Call(Name(name), <<>>, under)
Nestings(kinds) == {<<"If", 0>>} \cup (kinds \X (1..MaxDepth))

\* one task function holding several Task() calls at several depths;
\* a call is described by its nesting and its version (15: the float 1.5)
CallForms ==
    (Nestings({"If", "task", "Call"}) \X {1, 2}) \cup {<<<<"If", 0>>, 15>>}
CallStmt(form) ==
    LET call == TaskCall(Version(Constant(IF form[2] = 15 THEN FloatV(15)
                                                           ELSE IntV(form[2]))))
    IN  IF form[1][1] = "Call"
        THEN Return(<<Nest("Call", "list", form[1][2], call)>>)
        ELSE Nest(form[1][1], "g", form[1][2], Return(<<call>>))
CallSource(forms) ==
    Module(<<FunctionDef("f", <<DecoName("task")>>,
                         [i \in DOMAIN forms |-> CallStmt(forms[i])])>>)

\* task functions at the top level and under classes, conditionals, functions
NestedForms == Nestings({"If", "ClassDef", "FunctionDef"}) \X {"f", "g"}
NestedFunction(form) ==
    Nest(form[1][1], "Outer", form[1][2],
         FunctionDef(form[2], <<DecoName("task")>>,
                     <<Return(<<TaskCall(Version(Constant(
                          IF form[2] = "f" THEN IntV(1) ELSE IntV(2))))>>)>>))
NestedSource(forms) == Module([i \in DOMAIN forms |-> NestedFunction(forms[i])])

(***************************************************************************)
(* The extraction applied to one source text.                              *)
(***************************************************************************)
NoRepo == [returncode |-> 0, commits |-> <<>>]
NoRequest ==
    [entry |-> "extract_task_versions", task_name |-> "", version |-> NoneV]
NoOutcome == [kind |-> "pending", name |-> "", source |-> EmptyText]
NoRegistry == [n \in {} |-> FALSE]

LocatorIdle ==
    /\ repo = NoRepo /\ req = NoRequest /\ idx = 0 /\ commit = 0
    /\ outcome = NoOutcome
RegistryIdle ==
    /\ registry = NoRegistry /\ lazy = NoRegistry /\ load_count = NoRegistry
    /\ returned = <<>> /\ ops = 0
ExtractIdle == source = EmptyText /\ versions = EmptyDict

InitExtract ==
    /\ \/ \E callee \in DOMAIN Callees, versioned \in BOOLEAN,
             picks \in SeqsUpTo(DOMAIN DecoKeywords, MaxKeywords) :
             /\ NoRepeatedArg(Pick(DecoKeywords, picks))
             /\ source = Text(CalledSource(callee, picks, versioned), FALSE)
       \/ \E picks \in SeqsUpTo(DOMAIN ListedDecorators, MaxDecorators),
             versioned \in BOOLEAN :
             source = Text(ListedSource(picks, versioned), FALSE)
       \/ \E type \in {"FunctionDef", "AsyncFunctionDef"},
             v \in DOMAIN VersionKeywords :
             source = Text(VersionedSource(type, v), FALSE)
       \/ \E picks \in SeqsUpTo(DOMAIN ConstantStmts, MaxStmts) :
             source = Text(ConstantSource(picks), FALSE)
       \/ \E forms \in SeqsUpTo(CallForms, MaxCalls) \ {<<>>} :
             source = Text(CallSource(forms), FALSE)
       \/ \E forms \in SeqsUpTo(NestedForms, MaxFuncs) \ {<<>>} :
             source = Text(NestedSource(forms), FALSE)
       \/ source \in {EmptyText, BadText}
    /\ versions = EmptyDict
    /\ pc = "extract"
    /\ LocatorIdle
    /\ RegistryIdle

Extract ==
    /\ pc = "extract"
    /\ versions' = extract_task_versions(source)
    /\ pc' = "done"
    /\ UNCHANGED <<source, repo, req, idx, commit, outcome,
                   registry, lazy, load_count, returned, ops>>

NextExtract == Extract
SpecExtract == InitExtract /\ [][NextExtract]_vars

(***************************************************************************)
(* Vocabulary of the properties of the extraction.                         *)
(***************************************************************************)
Extracted == pc = "done" /\ req.entry = "extract_task_versions"
Parsed == Extracted /\ source.text # "bad"
TopLevel == source.tree.body
AllNodes == WalkPreorder(<<source.tree>>)

IsTaskDecorator(d) ==
    \/ d.e = "Name" /\ d.id = "task"
    \/ d.e = "Call" /\ d.func.e = "Name" /\ d.func.id = "task"
IsDecorated(node) ==
    /\ node.type = "FunctionDef"
    /\ \E i \in DOMAIN node.decorator_list :
          IsTaskDecorator(node.decorator_list[i])
IsTaskCall(node) ==
    node.type = "Call" /\ node.func.e = "Name" /\ node.func.id = "Task"
HasVersion(call) == \E k \in DOMAIN call.keywords : call.keywords[k].arg = "version"
VersionOf(call) ==
    call.keywords[CHOOSE k \in DOMAIN call.keywords :
                     call.keywords[k].arg = "version"].value
IsLiteral(expr) == expr.e = "Constant" /\ expr.value.t \in {"int", "str"}
Last(seq) == seq[Len(seq)]
One(key, val) == [k \in {key} |-> val]
\* a function that is just `return Task(...)`
ReturnsTask(node) ==
    /\ Len(node.body) = 1
    /\ node.body[1].type = "Return"
    /\ Len(node.body[1].body) = 1
    /\ IsTaskCall(node.body[1].body[1])
    /\ node.body[1].body[1].body = <<>>
ReturnedTask(node) == node.body[1].body[1]

(***************************************************************************)
(* C5. For a function decorated with `task`, bare or called, the key of    *)
(* its version is the decorator's name= value when that is a string        *)
(* constant and the function's own name in every other case; the function  *)
(* is never dropped because of the form of its name= argument.             *)
(* Stated for a module of one function with one `task` decorator that      *)
(* returns Task(..., version=<literal>).                                   *)
(***************************************************************************)
C5Scope ==
    /\ Parsed
    /\ Len(TopLevel) = 1
    /\ IsDecorated(TopLevel[1])
    /\ Cardinality({i \in DOMAIN TopLevel[1].decorator_list :
                      IsTaskDecorator(TopLevel[1].decorator_list[i])}) = 1
    /\ ReturnsTask(TopLevel[1])
    /\ HasVersion(ReturnedTask(TopLevel[1]))
    /\ IsLiteral(VersionOf(ReturnedTask(TopLevel[1])))
C5Decorator ==
    TopLevel[1].decorator_list[
        CHOOSE i \in DOMAIN TopLevel[1].decorator_list :
            IsTaskDecorator(TopLevel[1].decorator_list[i])]
C5StringNames ==
    {kw.value.value.s : kw \in
        {C5Decorator.keywords[k] : k \in
            {k \in DOMAIN C5Decorator.keywords :
                /\ C5Decorator.keywords[k].arg = "name"
                /\ C5Decorator.keywords[k].value.e = "Constant"
                /\ C5Decorator.keywords[k].value.value.t = "str"}}}
C5Key ==
    IF C5StringNames # {} THEN CHOOSE n \in C5StringNames : TRUE
    ELSE TopLevel[1].name
\* C5: the version of a task-decorated function is recorded under the
\* decorator's name= when that is a string constant and under the function's
\* own name in every other case (no name=, a non-constant name=, a constant
\* name= that is not a string); the function is never dropped.
C5_KeyFromDecorator ==
    C5Scope =>
        versions = One(C5Key, VersionOf(ReturnedTask(TopLevel[1])).value)

(***************************************************************************)
(* C6. A source text containing a single `@task`-decorated function that   *)
(* returns Task(..., version=V), V a literal integer or string, yields     *)
(* exactly {task_name: V}; without a version= keyword it yields {}.        *)
(***************************************************************************)
C6Functions ==
    {i \in DOMAIN AllNodes :
        AllNodes[i].type \in {"FunctionDef", "AsyncFunctionDef"}}
C6Scope ==
    /\ Parsed
    /\ Cardinality(C6Functions) = 1
    /\ \A i \in C6Functions :
          /\ AllNodes[i].type = "FunctionDef"
          /\ AllNodes[i].decorator_list = <<DecoName("task")>>
          /\ ReturnsTask(AllNodes[i])
          /\ HasVersion(ReturnedTask(AllNodes[i])) =>
                IsLiteral(VersionOf(ReturnedTask(AllNodes[i])))
C6Function == AllNodes[CHOOSE i \in C6Functions : TRUE]
\* C6: a source text containing a single `@task` function that returns
\* Task(..., version=V), V a literal integer or string, yields exactly
\* {task_name: V}, and {} when the call has no version=.
C6_SingleTaskMapping ==
    C6Scope =>
        versions = IF HasVersion(ReturnedTask(C6Function))
                   THEN One(C6Function.name,
                            VersionOf(ReturnedTask(C6Function)).value)
                   ELSE EmptyDict
\* the part of the statement the code has: the function is at the top level
\* of the module
C6TopLevel ==
    (C6Scope /\ \E i \in DOMAIN TopLevel : TopLevel[i] = C6Function) =>
        versions = IF HasVersion(ReturnedTask(C6Function))
                   THEN One(C6Function.name,
                            VersionOf(ReturnedTask(C6Function)).value)
                   ELSE EmptyDict

(***************************************************************************)
(* C7. A bare name in version= resolves through the module-level literal   *)
(* assignments.  Stated for a module whose only function is one            *)
(* `@task` function at the top level holding one Task(version=<name>).     *)
(***************************************************************************)
TaskCallsIn(node) == SelectSeq(WalkPreorder(<<node>>), IsTaskCall)
C7Functions ==
    {i \in DOMAIN TopLevel :
        TopLevel[i].type \in {"FunctionDef", "AsyncFunctionDef"}}
C7Scope ==
    /\ Parsed
    /\ Cardinality(C6Functions) = 1
    /\ Cardinality(C7Functions) = 1
    /\ \A p \in C7Functions :
          /\ TopLevel[p].type = "FunctionDef"
          /\ TopLevel[p].decorator_list = <<DecoName("task")>>
          /\ Len(TaskCallsIn(TopLevel[p])) = 1
          /\ HasVersion(TaskCallsIn(TopLevel[p])[1])
          /\ VersionOf(TaskCallsIn(TopLevel[p])[1]).e = "Name"
C7Position == CHOOSE p \in C7Functions : TRUE
C7Name == VersionOf(TaskCallsIn(TopLevel[C7Position])[1]).id
\* statement i of the module is `... = C7Name = ... = <int or str constant>`
C7Assigns(i) ==
    /\ TopLevel[i].type = "Assign"
    /\ TopLevel[i].value.e = "Constant"
    /\ TopLevel[i].value.value.t \in {"int", "bool", "str"}
    /\ \E t \in DOMAIN TopLevel[i].targets :
          TopLevel[i].targets[t].e = "Name" /\ TopLevel[i].targets[t].id = C7Name
Max(S) == CHOOSE m \in S : \A o \in S : o <= m
C7Resolved(among) ==
    IF among = {} THEN EmptyDict
    ELSE One(TopLevel[C7Position].name, TopLevel[Max(among)].value.value)

\* C7 as claimed: the value is the one assigned EARLIER in the file, and an
\* assignment later in the file does not change it.
C7_EarlierAssignment ==
    C7Scope =>
        versions = C7Resolved({i \in 1..(C7Position - 1) : C7Assigns(i)})

\* C7 as amended: the value is that of the last module-level assignment of
\* an integer or string constant to the name anywhere in the file, before or
\* after the function; with no such assignment nothing is recorded, and an
\* assignment that is not at module level changes nothing.
C7_LastModuleLevelAssignment ==
    C7Scope => versions = C7Resolved({i \in DOMAIN TopLevel : C7Assigns(i)})

\* the name is assigned before the function and again, differently, after
\* it, and the later value is the one recorded
C7Witness ==
    /\ C7Scope
    /\ \E i \in 1..(C7Position - 1), j \in (C7Position + 1)..Len(TopLevel) :
          /\ C7Assigns(i) /\ C7Assigns(j)
          /\ TopLevel[i].value.value # TopLevel[j].value.value
          /\ versions = One("f", TopLevel[j].value.value)

(***************************************************************************)
(* C9. Several Task(version=...) calls for one task name: which one is     *)
(* recorded.                                                               *)
(***************************************************************************)
C9Scope ==
    /\ Parsed
    /\ TopLevel # <<>>
    /\ \A i \in DOMAIN TopLevel :
          /\ TopLevel[i].type = "FunctionDef"
          /\ TopLevel[i].decorator_list = <<DecoName("task")>>
    /\ \A i \in DOMAIN AllNodes :
          /\ AllNodes[i].type \in {"FunctionDef", "AsyncFunctionDef", "ClassDef"}
                => \E t \in DOMAIN TopLevel : AllNodes[i] = TopLevel[t]
          /\ (IsTaskCall(AllNodes[i]) /\ HasVersion(AllNodes[i]))
                => IsLiteral(VersionOf(AllNodes[i]))
C9Named(n) == SelectSeq(TopLevel, LAMBDA node : node.name = n)
C9SourceOrder(n) ==
    SelectSeq(WalkPreorder(C9Named(n)),
              LAMBDA node : IsTaskCall(node) /\ HasVersion(node))

\* C9 as claimed: the version recorded for a name is the one of the LAST
\* Task(version=...) call for that name in source order.
C9_LastInSourceOrder ==
    C9Scope =>
        \A i \in DOMAIN TopLevel :
            LET calls == C9SourceOrder(TopLevel[i].name)
            IN  IF calls = <<>> THEN TopLevel[i].name \notin DOMAIN versions
                ELSE /\ TopLevel[i].name \in DOMAIN versions
                     /\ versions[TopLevel[i].name] = VersionOf(Last(calls)).value

\* the nodes under `nodes`, level by level, each level left to right
RECURSIVE ChildrenOf(_)
ChildrenOf(nodes) ==
    IF nodes = <<>> THEN <<>>
    ELSE Head(nodes).body \o ChildrenOf(Tail(nodes))
RECURSIVE LevelOrder(_)
LevelOrder(nodes) ==
    IF nodes = <<>> THEN <<>> ELSE nodes \o LevelOrder(ChildrenOf(nodes))
C9Constants == ConstantsPass(TopLevel, EmptyDict)
\* the call has a version= whose value the extraction can record
C9Records(call) ==
    /\ IsTaskCall(call)
    /\ HasVersion(call)
    /\ \/ VersionOf(call).e = "Constant" /\ IsIntOrStr(VersionOf(call).value)
       \/ VersionOf(call).e = "Name" /\ VersionOf(call).id \in DOMAIN C9Constants
C9Value(call) ==
    IF VersionOf(call).e = "Constant" THEN VersionOf(call).value
    ELSE C9Constants[VersionOf(call).id]
C9Key(node) == DecoratorLoop(node.decorator_list, node.name)
\* the recording calls of the top-level task functions from statement i on,
\* each with the key it is recorded under
RECURSIVE C9Visits(_)
C9Visits(i) ==
    IF i > Len(TopLevel) THEN <<>>
    ELSE LET node == TopLevel[i]
             calls == SelectSeq(LevelOrder(<<node>>), C9Records)
             mine == IF node.type = "FunctionDef" /\ ~C9Key(node).none
                     THEN [k \in DOMAIN calls |->
                              [key |-> C9Key(node).s, call |-> calls[k]]]
                     ELSE <<>>
         IN  mine \o C9Visits(i + 1)
C9VisitsOf(n) == SelectSeq(C9Visits(1), LAMBDA v : v.key = n)

\* C9 as amended: the version recorded for a name is the one of the last
\* recording call in the order the extraction visits them: the top-level
\* task functions in source order and, inside each, level by level (a call
\* nearer the function's root before any deeper call, whatever their order
\* in the source).
C9_LastInVisitingOrder ==
    Parsed =>
        /\ DOMAIN versions = {C9Visits(1)[k].key : k \in DOMAIN C9Visits(1)}
        /\ \A n \in DOMAIN versions :
              versions[n] = C9Value(Last(C9VisitsOf(n)).call)

\* a deeper call that comes first in the source overrides a shallower one
\* that comes after it
C9Witness ==
    /\ C9Scope
    /\ Len(TopLevel) = 1
    /\ Len(C9SourceOrder("f")) = 2
    /\ "f" \in DOMAIN versions
    /\ versions["f"] = VersionOf(C9SourceOrder("f")[1]).value
    /\ versions["f"] # VersionOf(C9SourceOrder("f")[2]).value

(***************************************************************************)
(* C10. Task-decorated functions are found at the top level and nested     *)
(* (in a class, a function, a conditional); each contributes an entry      *)
(* under its own name, and a Task call belongs to the decorated function   *)
(* that directly contains it.  Stated for modules whose decorated          *)
(* functions are bare `@task`, have distinct names and directly contain    *)
(* one Task(version=<literal>) each.                                       *)
(***************************************************************************)
RECURSIVE DirectCalls(_)
DirectCalls(todo) ==
    IF todo = <<>> THEN <<>>
    ELSE LET node == Head(todo)
         IN  IF IsDecorated(node) THEN DirectCalls(Tail(todo))
             ELSE (IF IsTaskCall(node) THEN <<node>> ELSE <<>>)
                  \o DirectCalls(node.body \o Tail(todo))
C10Functions == {i \in DOMAIN AllNodes : IsDecorated(AllNodes[i])}
C10Scope ==
    /\ Parsed
    /\ C10Functions # {}
    /\ \A i \in C10Functions :
          /\ AllNodes[i].decorator_list = <<DecoName("task")>>
          /\ Len(DirectCalls(AllNodes[i].body)) = 1
          /\ HasVersion(DirectCalls(AllNodes[i].body)[1])
          /\ IsLiteral(VersionOf(DirectCalls(AllNodes[i].body)[1]))
          /\ \A j \in C10Functions : AllNodes[i].name = AllNodes[j].name => i = j
\* C10: every task-decorated function, top-level or nested, contributes
\* the version of the Task call it directly contains, under its own name.
C10_NestedFunctionsFound ==
    C10Scope =>
        /\ DOMAIN versions = {AllNodes[i].name : i \in C10Functions}
        /\ \A i \in C10Functions :
              versions[AllNodes[i].name]
                  = VersionOf(DirectCalls(AllNodes[i].body)[1]).value

(***************************************************************************)
(* The version locator: find_commit_for_version and, on top of it,         *)
(* load_task_at_version, over a repository whose history of the task file  *)
(* is a list of commits (git log order), each with what `git show` gives.  *)
(* A commit is named by its position in that list; 0 is None.              *)
(***************************************************************************)
MaxCommits == 3

NoSource == [text |-> "none", tree |-> Module(<<>>), raises |-> FALSE]
\* truthiness of `source`: None and "" are false
Truthy(src) == src.text \notin {"none", "empty"}

\* lines 11-23
get_file_at_commit(file) ==
    IF file.returncode # 0 THEN NoSource ELSE file.stdout

\* str() of a version, as the f-string of line 172 formats it
Digit(d) == <<"0", "1", "2", "3", "4", "5", "6", "7", "8", "9">>[d + 1]
RECURSIVE IntStr(_)
IntStr(n) == IF n < 10 THEN Digit(n) ELSE IntStr(n \div 10) \o Digit(n % 10)
Format(val) ==
    CASE val.t = "str" -> val.s
      [] val.t = "bool" -> IF val.n = 1 THEN "True" ELSE "False"
      [] val.t = "int" -> IntStr(val.n)
      [] OTHER -> "None"

Revision(name, val, raises) ==
    Text(Module(<<FunctionDef(name, <<DecoName("task")>>,
                              <<Return(<<TaskCall(Version(Constant(val)))>>)>>)>>),
         raises)
Shown(text) == [returncode |-> 0, stdout |-> text]
\* what `git show` gives at a commit
CommitFiles ==
    <<[returncode |-> 128, stdout |-> EmptyText], Shown(EmptyText), Shown(BadText),
      Shown(Revision("f", IntV(1), FALSE)), Shown(Revision("f", StrV("1"), FALSE)),
      Shown(Revision("f", BoolV(TRUE), FALSE)), Shown(Revision("f", IntV(12), FALSE)),
      Shown(Revision("g", IntV(1), FALSE)), Shown(Revision("f", IntV(1), TRUE))>>
Requests ==
    [entry : {"find_commit_for_version", "load_task_at_version"},
     task_name : {"f"},
     version : {IntV(1), StrV("1"), BoolV(TRUE), IntV(12)}]

InitFind ==
    /\ \/ repo = [returncode |-> 128, commits |-> <<>>]
       \/ \E picks \in SeqsUpTo(DOMAIN CommitFiles, MaxCommits) :
             repo = [returncode |-> 0, commits |-> Pick(CommitFiles, picks)]
    /\ req \in Requests
    /\ pc = "git_log"
    /\ idx = 0
    /\ commit = 0
    /\ outcome = NoOutcome
    /\ source = NoSource
    /\ versions = EmptyDict
    /\ RegistryIdle

\* lines 119-128: the history query; a failure or no commit returns None
GitLog ==
    /\ pc = "git_log"
    /\ IF repo.returncode # 0 \/ repo.commits = <<>>
       THEN commit' = 0 /\ pc' = "returned" /\ idx' = idx
       ELSE idx' = 1 /\ pc' = "scan" /\ commit' = commit
    /\ UNCHANGED <<source, versions, repo, req, outcome,
                   registry, lazy, load_count, returned, ops>>

\* a match on the task being present, whatever its version
ScanCommitAnyVersion ==
    /\ pc = "scan"
    /\ idx <= Len(repo.commits)
    /\ LET src == get_file_at_commit(repo.commits[idx])
           vs == IF Truthy(src) THEN extract_task_versions(src) ELSE versions
       IN  /\ source' = src
           /\ versions' = vs
           /\ IF Truthy(src) /\ req.task_name \in DOMAIN vs
              THEN commit' = idx /\ pc' = "returned" /\ idx' = idx
              ELSE idx' = idx + 1 /\ pc' = pc /\ commit' = commit
    /\ UNCHANGED <<repo, req, outcome, registry, lazy, load_count, returned, ops>>

\* a commit whose file cannot be read ends the scan
ScanCommitAbort ==
    /\ pc = "scan"
    /\ idx <= Len(repo.commits)
    /\ LET src == get_file_at_commit(repo.commits[idx])
           vs == IF Truthy(src) THEN extract_task_versions(src) ELSE versions
       IN  /\ source' = src
           /\ versions' = vs
           /\ IF ~Truthy(src) \/ src.text = "bad"
              THEN commit' = 0 /\ pc' = "returned" /\ idx' = idx
              ELSE IF PyEq(DictGet(vs, req.task_name), req.version)
              THEN commit' = idx /\ pc' = "returned" /\ idx' = idx
              ELSE idx' = idx + 1 /\ pc' = pc /\ commit' = commit
    /\ UNCHANGED <<repo, req, outcome, registry, lazy, load_count, returned, ops>>

\* lines 130-135: one iteration of `for commit in commits`
ScanCommit ==
    /\ pc = "scan"
    /\ idx <= Len(repo.commits)
    /\ LET src == get_file_at_commit(repo.commits[idx])
           vs == IF Truthy(src) THEN extract_task_versions(src) ELSE versions
       IN  /\ source' = src
           /\ versions' = vs
           /\ IF Truthy(src) /\ PyEq(DictGet(vs, req.task_name), req.version)
              THEN commit' = idx /\ pc' = "returned" /\ idx' = idx
              ELSE idx' = idx + 1 /\ pc' = pc /\ commit' = commit
    /\ UNCHANGED <<repo, req, outcome, registry, lazy, load_count, returned, ops>>

\* line 137: the loop ran out of commits
ScanExhausted ==
    /\ pc = "scan"
    /\ idx > Len(repo.commits)
    /\ commit' = 0
    /\ pc' = "returned"
    /\ UNCHANGED <<source, versions, repo, req, idx, outcome,
                   registry, lazy, load_count, returned, ops>>

\* lines 164-166: load_task_at_version gets the commit back
LoadCheckCommit ==
    /\ pc = "returned"
    /\ req.entry = "load_task_at_version"
    /\ IF commit = 0
       THEN outcome' = [NoOutcome EXCEPT !.kind = "None"] /\ pc' = "done"
       ELSE outcome' = outcome /\ pc' = "fetch"
    /\ UNCHANGED <<source, versions, repo, req, idx, commit,
                   registry, lazy, load_count, returned, ops>>

\* lines 168-170: the file is read again at the commit found; this run of
\* `git show` is a new call of the external program and may fail
LoadFetch ==
    /\ pc = "fetch"
    /\ \E returncode \in {0, 128} :
          LET src == get_file_at_commit(
                         [repo.commits[commit] EXCEPT !.returncode = returncode])
          IN  /\ source' = src
              /\ IF ~Truthy(src)
                 THEN outcome' = [NoOutcome EXCEPT !.kind = "None"] /\ pc' = "done"
                 ELSE outcome' = outcome /\ pc' = "exec"
    /\ UNCHANGED <<versions, repo, req, idx, commit,
                   registry, lazy, load_count, returned, ops>>

\* an error of the executed source is caught and None returned
LoadExecCaught ==
    /\ pc = "exec"
    /\ outcome' =
          IF source.raises THEN [NoOutcome EXCEPT !.kind = "None"]
          ELSE [kind |-> "module",
                name |-> req.task_name \o "_v" \o Format(req.version),
                source |-> source]
    /\ pc' = "done"
    /\ UNCHANGED <<source, versions, repo, req, idx, commit,
                   registry, lazy, load_count, returned, ops>>

\* lines 172-173 and 140-144: the module is named and the source executed
\* in it; an error of the source is the caller's
LoadExec ==
    /\ pc = "exec"
    /\ outcome' =
          [kind |-> IF source.raises THEN "raise" ELSE "module",
           name |-> req.task_name \o "_v" \o Format(req.version),
           source |-> source]
    /\ pc' = "done"
    /\ UNCHANGED <<source, versions, repo, req, idx, commit,
                   registry, lazy, load_count, returned, ops>>

NextFind ==
    \/ GitLog
    \/ ScanCommit
    \/ ScanExhausted
    \/ LoadCheckCommit
    \/ LoadFetch
    \/ LoadExec
SpecFind == InitFind /\ [][NextFind]_vars

(***************************************************************************)
(* Vocabulary of the properties of the locator.                            *)
(***************************************************************************)
FindReturned == pc \in {"returned", "fetch", "exec", "done"}
Commits == IF repo.returncode # 0 THEN <<>> ELSE repo.commits
\* the mapping extracted from the file as it is at commit i
MappingAt(i) == extract_task_versions(Commits[i].stdout)
\* commit i gives no mapping: git show fails, or gives "", or text that
\* does not parse
Unreadable(i) ==
    \/ Commits[i].returncode # 0
    \/ Commits[i].stdout.text \in {"empty", "bad"}
\* versions[task_name] == version at commit i
Matches(i) ==
    /\ Commits[i].returncode = 0
    /\ Commits[i].stdout.text # "empty"
    /\ req.task_name \in DOMAIN MappingAt(i)
    /\ PyEq(MappingAt(i)[req.task_name], req.version)
Matching == {i \in DOMAIN Commits : Matches(i)}
Min(S) == CHOOSE m \in S : \A o \in S : m <= o

(***************************************************************************)
(* C1. find_commit_for_version returns the FIRST commit, in git-log order, *)
(* whose extracted mapping has versions[task_name] == version, and None    *)
(* exactly when no commit matches, a failed or empty history included; it  *)
(* never raises.                                                           *)
(***************************************************************************)
\* C1: the commit returned is the first one in git-log order whose extracted
\* mapping has versions[task_name] == version; None (0) is returned exactly
\* when no commit matches, a failed or empty history query included.
C1_FirstMatchingCommit ==
    FindReturned =>
        commit = IF Matching = {} THEN 0 ELSE Min(Matching)
\* several commits match and the one returned is the first, which is not
\* the first commit of the history
C1Witness ==
    /\ pc = "returned"
    /\ Cardinality(Matching) >= 2
    /\ commit = Min(Matching)
    /\ commit > 1

(***************************************************************************)
(* C2. A commit whose file cannot be retrieved, or is empty, or does not   *)
(* parse is a non-match only: the scan goes on, and a later commit that    *)
(* matches is returned, whatever the number and position of such commits   *)
(* before it.                                                              *)
(***************************************************************************)
\* C2: a commit that matches is returned although commits before it cannot
\* be read (git show fails, empty text, text that does not parse), as long as
\* no commit before it matches.
C2_UnreadableCommitsSkipped ==
    FindReturned =>
        \A i \in DOMAIN Commits :
            (/\ Matches(i)
             /\ \E j \in 1..(i - 1) : Unreadable(j)
             /\ \A j \in 1..(i - 1) : ~Matches(j))
                => commit = i
\* the commit returned comes after a commit git show fails on, an empty one
\* or an unparseable one, in every order
C2Witness ==
    /\ pc = "returned"
    /\ commit = 3
    /\ Unreadable(1) /\ Unreadable(2)
    /\ Commits[1] # Commits[2]

(***************************************************************************)
(* C4. load_task_at_version returns None only when no commit matches or    *)
(* the file at the matching commit cannot be retrieved; otherwise it       *)
(* executes that commit's source in a module named                         *)
(* "{task_name}_v{version}" and returns the module, and an error raised by *)
(* the source reaches the caller.                                          *)
(***************************************************************************)
C4ModuleName ==
    CASE req.version = IntV(1) -> "f_v1"
      [] req.version = StrV("1") -> "f_v1"
      [] req.version = BoolV(TRUE) -> "f_vTrue"
      [] req.version = IntV(12) -> "f_v12"
\* C4: load_task_at_version returns None exactly when no commit matches or
\* the file cannot be read again at the commit found; otherwise the source of
\* that commit is executed in a module named "{task_name}_v{version}", which
\* is returned, unless the source raises, and then the caller gets the error.
C4_LoadOutcome ==
    (pc = "done" /\ req.entry = "load_task_at_version") =>
        /\ outcome.kind \in {"None", "module", "raise"}
        /\ outcome.kind = "None" <=> (Matching = {} \/ source.text = "none")
        /\ outcome.kind # "None" =>
              /\ outcome.source = Commits[Min(Matching)].stdout
              /\ outcome.name = C4ModuleName
              /\ outcome.kind = "raise" <=> outcome.source.raises
\* the source of the commit found raises when executed, and the caller
\* gets the error
C4Witness ==
    /\ pc = "done"
    /\ Matching # {}
    /\ outcome.kind = "raise"
    /\ outcome.name = "f_vTrue"

(***************************************************************************)
(* C8. The match is exact on type and value: the commit returned declares  *)
(* a version of the same type and the same value as the one requested      *)
(* (a request for 1 matches neither "1" nor True).                         *)
(***************************************************************************)
\* C8: the version declared at the commit returned has the type and the
\* value of the version requested.
C8_ExactTypeAndValue ==
    (FindReturned /\ commit # 0) =>
        /\ MappingAt(commit)[req.task_name].t = req.version.t
        /\ MappingAt(commit)[req.task_name] = req.version
\* the part of C8 the code has: a string never matches a number
C8StringsApart ==
    (FindReturned /\ commit # 0) =>
        (MappingAt(commit)[req.task_name].t = "str") = (req.version.t = "str")

(***************************************************************************)
(* The lazy registry entry (inspect_ai._util.registry), as the             *)
(* specification and tests/util/test_registry.py describe it: a            *)
(* LazyRegistryObject holds a loader, a cached value and `loaded`;         *)
(* registry_add_lazy stores it under its name; registry_lookup forces the  *)
(* load of a lazy entry and returns the resolved object.  Every            *)
(* invocation of a loader builds a new object.                             *)
(***************************************************************************)
MaxOps == 4
LazyNames == {"_lazy_test_metric", "_lazy_registered_metric"}
NoObject == [name |-> "", serial |-> 0]

\* the loader is invoked on every load
LazyLoadAlways(obj, count, name) ==
    [obj |-> [loaded |-> TRUE,
              cached_value |-> [name |-> name, serial |-> count + 1]],
     count |-> count + 1,
     value |-> [name |-> name, serial |-> count + 1]]

\* LazyRegistryObject.load(): the loader runs if nothing is cached yet
LazyLoad(obj, count, name) ==
    IF obj.loaded
    THEN [obj |-> obj, count |-> count, value |-> obj.cached_value]
    ELSE [obj |-> [loaded |-> TRUE,
                   cached_value |-> [name |-> name, serial |-> count + 1]],
          count |-> count + 1,
          value |-> [name |-> name, serial |-> count + 1]]

InitLazy ==
    /\ registry = NoRegistry
    /\ lazy = [n \in LazyNames |-> [loaded |-> FALSE, cached_value |-> NoObject]]
    /\ load_count = [n \in LazyNames |-> 0]
    /\ returned = <<>>
    /\ ops = 0
    /\ pc = "registry"
    /\ req = NoRequest
    /\ repo = NoRepo /\ idx = 0 /\ commit = 0 /\ outcome = NoOutcome
    /\ ExtractIdle

\* registry_add_lazy(info, loader): the pair is stored, nothing is loaded
RegistryAddLazy ==
    /\ ops < MaxOps
    /\ \E n \in LazyNames \ DOMAIN registry :
          registry' = [k \in DOMAIN registry \cup {n} |-> TRUE]
    /\ ops' = ops + 1
    /\ UNCHANGED <<lazy, load_count, returned,
                   source, versions, pc, repo, req, idx, commit, outcome>>

\* lazy.load() on the object itself
Load ==
    /\ ops < MaxOps
    /\ \E n \in LazyNames :
          LET r == LazyLoad(lazy[n], load_count[n], n)
          IN  /\ lazy' = [lazy EXCEPT ![n] = r.obj]
              /\ load_count' = [load_count EXCEPT ![n] = r.count]
              /\ returned' = Append(returned,
                                    [op |-> "load", name |-> n, value |-> r.value])
    /\ ops' = ops + 1
    /\ UNCHANGED <<registry,
                   source, versions, pc, repo, req, idx, commit, outcome>>

\* registry_lookup(type, name): absent for an unregistered name; a lazy
\* entry is loaded and the resolved object returned
RegistryLookup ==
    /\ ops < MaxOps
    /\ \E n \in LazyNames :
          IF n \in DOMAIN registry
          THEN LET r == LazyLoad(lazy[n], load_count[n], n)
               IN  /\ lazy' = [lazy EXCEPT ![n] = r.obj]
                   /\ load_count' = [load_count EXCEPT ![n] = r.count]
                   /\ returned' = Append(returned,
                                     [op |-> "lookup", name |-> n, value |-> r.value])
          ELSE /\ returned' = Append(returned,
                                 [op |-> "lookup", name |-> n, value |-> NoObject])
               /\ UNCHANGED <<lazy, load_count>>
    /\ ops' = ops + 1
    /\ UNCHANGED <<registry,
                   source, versions, pc, repo, req, idx, commit, outcome>>

NextLazy ==
    \/ RegistryAddLazy
    \/ Load
    \/ RegistryLookup
SpecLazy == InitLazy /\ [][NextLazy]_vars

(***************************************************************************)
(* C3. For a lazy entry, over any sequence of load() and resolving         *)
(* registry_lookup calls: the loader has run zero times before the first   *)
(* of them and exactly once after; `loaded` is false until then and true   *)
(* from then on; every later load returns the identical cached object.     *)
(***************************************************************************)
Resolved(n) ==
    SelectSeq(returned, LAMBDA r : r.name = n /\ r.value # NoObject)
\* C3: for each lazy entry the loader has run zero times while nothing has
\* resolved it and exactly once afterwards, `loaded` is true exactly from the
\* first resolution on, and every load()/lookup returns the one cached object.
C3_LoaderRunsOnce ==
    \A n \in DOMAIN lazy :
        /\ load_count[n] = IF Resolved(n) = <<>> THEN 0 ELSE 1
        /\ lazy[n].loaded <=> Resolved(n) # <<>>
        /\ \A k \in DOMAIN Resolved(n) :
              /\ Resolved(n)[k].value = Resolved(n)[1].value
              /\ Resolved(n)[k].value = lazy[n].cached_value
\* an entry resolved three times, by load() and by registry_lookup, with
\* one run of its loader
C3Witness ==
    \E n \in DOMAIN lazy :
        /\ Len(Resolved(n)) >= 3
        /\ \E j, k \in DOMAIN Resolved(n) :
              Resolved(n)[j].op = "load" /\ Resolved(n)[k].op = "lookup"
        /\ load_count[n] = 1

====
